---- MODULE Spec2Model ----
(***************************************************************************)
(* Content Optimization Suite: the content analysis engine.                *)
(*                                                                         *)
(* Two classes implement it: ContentAnalyzer (src/src/content_optimizer.py,*)
(* served by src/src/app.py) and ContentOptimizer (src/content_optimizer.py*)
(* with its own routes).  A text is a sequence of one-character strings.   *)
(* Floats are kept as scaled integers: a value rounded to 1 decimal is     *)
(* held in tenths (74.9 is 749), a value rounded to 2 decimals in          *)
(* hundredths (33.33 is 3333).                                             *)
(***************************************************************************)
EXTENDS Integers, Sequences, FiniteSets, TLC

VARIABLES
    cls,             \* class of the analyzer instance that serves the calls
    stop_words,      \* self.stop_words of that instance
    content,         \* the caller's text (None when absent)
    target_keyword,  \* the caller's target keyword (None when absent)
    analysis,        \* the metrics record the caller holds
    suggest,         \* last get_optimization_suggestions call: argument and outcome
    density,         \* outcome of the last standalone calculate_keyword_density call
    threads,         \* the calls in progress on the shared instance, one per thread
    data,            \* request.get_json() of the HTTP request being served
    response         \* the HTTP response: status and body

vars == <<cls, stop_words, content, target_keyword, analysis, suggest, density,
          threads, data, response>>

(***************************************************************************)
(* Python values.                                                          *)
(***************************************************************************)
\* None, as a text or keyword argument: no character is four letters long.
None == <<"None">>

\* bool(x) of an optional string: None and "" are falsy.
Truthy(x) == x # None /\ x # <<>>

\* Outcome of a call: not made yet, returned a value, raised an exception.
NotCalled == [not_called |-> TRUE]
Return(v) == [ret |-> v]
Raise(e, what) == [raised |-> e, arg |-> what]

Returned(o) == "ret" \in DOMAIN o
Raised(o) == "raised" \in DOMAIN o

\* A list built element by element, as the sequence it is.
list(f) == <<>> \o f

Max(a, b) == IF a >= b THEN a ELSE b
Min(a, b) == IF a <= b THEN a ELSE b

(***************************************************************************)
(* Characters.                                                             *)
(***************************************************************************)
UpperCase == <<"A","B","C","D","E","F","G","H","I","J","K","L","M",
               "N","O","P","Q","R","S","T","U","V","W","X","Y","Z">>
LowerCase == <<"a","b","c","d","e","f","g","h","i","j","k","l","m",
               "n","o","p","q","r","s","t","u","v","w","x","y","z">>
Digits == {"0","1","2","3","4","5","6","7","8","9"}

Range(f) == {f[i] : i \in DOMAIN f}

\* \w of the re module: letters, digits and the underscore.
WordChars == Range(UpperCase) \cup Range(LowerCase) \cup Digits \cup {"_"}
IsWordChar(c) == c \in WordChars

\* Whitespace of str.split(), str.strip() and of \s.
Whitespace == {" ", "\t", "\n", "\r", "\f"}
IsSpace(c) == c \in Whitespace
NotSpace(c) == c \notin Whitespace

\* [.!?]
Terminals == {".", "!", "?"}
IsTerminal(c) == c \in Terminals

IsHash(c) == c = "#"
IsNewline(c) == c = "\n"

\* str.lower(), one character.
LowerOf == [c \in Range(UpperCase) |->
               LowerCase[CHOOSE i \in DOMAIN UpperCase : UpperCase[i] = c]]
LowerChar(c) == IF c \in DOMAIN LowerOf THEN LowerOf[c] ELSE c

\* str.lower()
lower(s) == list([i \in 1..Len(s) |-> LowerChar(s[i])])

(***************************************************************************)
(* Scanning: maximal runs of a character class.                            *)
(***************************************************************************)
Indices(s) == list([i \in 1..Len(s) |-> i])

\* Positions where a maximal run of In-characters starts, in order.
RunStarts(s, In(_)) ==
    SelectSeq(Indices(s), LAMBDA i : In(s[i]) /\ (i = 1 \/ ~In(s[i-1])))

\* Last position of the run of In-characters that holds position i.
RunEnd(s, i, In(_)) ==
    CHOOSE j \in i..Len(s) :
        /\ \A k \in i..j : In(s[k])
        /\ j = Len(s) \/ ~In(s[j+1])

\* First position of the run of In-characters that holds position i.
RunBegin(s, i, In(_)) ==
    CHOOSE j \in 1..i :
        /\ \A k \in j..i : In(s[k])
        /\ j = 1 \/ ~In(s[j-1])

\* The maximal runs themselves, in order.
Runs(s, In(_)) ==
    LET st == RunStarts(s, In)
    IN  list([k \in 1..Len(st) |-> SubSeq(s, st[k], RunEnd(s, st[k], In))])

\* re.findall(r'\b\w+\b', s): greedy \w+ from a word boundary takes the whole run.
findall_words(s) == Runs(s, IsWordChar)

\* re.findall(r'[.!?]', s): every mark a match of its own.
findall_terminals_single_marks(s) ==
    LET marks == SelectSeq(s, IsTerminal)
    IN  list([i \in 1..Len(marks) |-> <<marks[i]>>])

\* re.findall(r'[.!?]+', s)
findall_terminals(s) == Runs(s, IsTerminal)

\* s.split(): the whitespace-delimited tokens.
split(s) == Runs(s, NotSpace)

\* s.strip()
strip(s) ==
    IF \A i \in 1..Len(s) : IsSpace(s[i])
    THEN <<>>
    ELSE LET first == CHOOSE i \in 1..Len(s) :
                          NotSpace(s[i]) /\ \A j \in 1..(i-1) : IsSpace(s[j])
             last  == CHOOSE i \in 1..Len(s) :
                          NotSpace(s[i]) /\ \A j \in (i+1)..Len(s) : IsSpace(s[j])
         IN  SubSeq(s, first, last)

\* s.split('\n\n'): the separators are the leftmost non-overlapping pairs of
\* newlines, so inside a run of newlines every second position starts one.
IsSeparatorStart(s, i) ==
    /\ i < Len(s)
    /\ s[i] = "\n"
    /\ s[i+1] = "\n"
    /\ (i - RunBegin(s, i, IsNewline)) % 2 = 0

split_blank(s) ==
    LET sep == SelectSeq(Indices(s), LAMBDA i : IsSeparatorStart(s, i))
        n   == Len(sep)
    IN  list([k \in 1..(n+1) |->
                SubSeq(s, IF k = 1 THEN 1 ELSE sep[k-1] + 2,
                          IF k = n + 1 THEN Len(s) ELSE sep[k] - 1)])

\* len([p for p in content.split('\n\n') if p.strip()])
CountParagraphs(s) ==
    Len(SelectSeq(split_blank(s), LAMBDA p : strip(p) # <<>>))

\* re.search(r'\n#+\s', s) is not None
HasHeader(s) ==
    \E i \in 1..Len(s) :
        /\ s[i] = "\n"
        /\ i < Len(s)
        /\ s[i+1] = "#"
        /\ LET j == RunEnd(s, i+1, IsHash)
           IN  j < Len(s) /\ IsSpace(s[j+1])

\* s.replace(' ', '')
remove_spaces(s) == SelectSeq(s, LAMBDA c : c # " ")

\* list.count(x)
count(xs, x) == Len(SelectSeq(xs, LAMBDA y : y = x))

\* One step of str.count(sub) over the start positions lo..hi, left to right:
\* n matches so far, the next one may start at free (matches do not overlap).
RECURSIVE ScanMatches(_, _, _, _, _)
ScanMatches(s, sub, lo, hi, st) ==
    IF lo > hi THEN st
    ELSE IF lo = hi
    THEN IF lo >= st.free /\ lo + Len(sub) - 1 <= Len(s)
            /\ s[lo] = sub[1]
            /\ SubSeq(s, lo, lo + Len(sub) - 1) = sub
         THEN [n |-> st.n + 1, free |-> lo + Len(sub)]
         ELSE st
    ELSE LET mid  == (lo + hi) \div 2
             left == ScanMatches(s, sub, lo, mid, st)
         IN  \* the test makes the left half be scanned before the right one
             IF left.n >= 0 THEN ScanMatches(s, sub, mid + 1, hi, left) ELSE left

\* s.count(sub), sub not empty: the non-overlapping occurrences.
count_substring(s, sub) == ScanMatches(s, sub, 1, Len(s), [n |-> 0, free |-> 1]).n

(***************************************************************************)
(* Arithmetic of round().                                                  *)
(***************************************************************************)
\* round(num / den) to the nearest integer, ties to the even one; num >= 0,
\* den > 0.  round(x, 1) of the model is RoundDiv of ten times x, round(x, 2)
\* of a hundred times x.  Python rounds the binary float: it agrees with the
\* exact quotient except on ties at a fraction that is not dyadic.
RoundDiv(num, den) ==
    LET q == num \div den
        r == num % den
    IN  IF 2 * r < den THEN q
        ELSE IF 2 * r > den THEN q + 1
        ELSE IF q % 2 = 0 THEN q ELSE q + 1

\* round(num / den), ties upward: round() of the readability score, whose
\* float (206.835 is stored a little above its decimal) lies above the tie.
RoundHalfUp(num, den) ==
    LET q == num \div den
        r == num % den
    IN  IF 2 * r < den THEN q ELSE q + 1

(***************************************************************************)
(* The stop words, the same set in both classes.                           *)
(***************************************************************************)
StopWords == {
    <<"t","h","e">>, <<"a">>, <<"a","n">>, <<"a","n","d">>, <<"o","r">>,
    <<"b","u","t">>, <<"i","n">>, <<"o","n">>, <<"a","t">>, <<"t","o">>,
    <<"f","o","r">>, <<"o","f">>, <<"w","i","t","h">>, <<"b","y">>,
    <<"i","s">>, <<"a","r","e">>, <<"w","a","s">>, <<"w","e","r","e">>,
    <<"b","e">>, <<"b","e","e","n">>, <<"b","e","i","n","g">>,
    <<"h","a","v","e">>, <<"h","a","s">>, <<"h","a","d">>, <<"d","o">>,
    <<"d","o","e","s">>, <<"d","i","d">>, <<"w","i","l","l">>,
    <<"w","o","u","l","d">>, <<"c","o","u","l","d">>,
    <<"s","h","o","u","l","d">>, <<"m","a","y">>, <<"m","i","g","h","t">>,
    <<"m","u","s","t">>, <<"c","a","n">>, <<"t","h","i","s">>,
    <<"t","h","a","t">>, <<"t","h","e","s","e">>, <<"t","h","o","s","e">>,
    <<"i">>, <<"y","o","u">>, <<"h","e">>, <<"s","h","e">>, <<"i","t">>,
    <<"w","e">>, <<"t","h","e","y">>, <<"m","e">>, <<"h","i","m">>,
    <<"h","e","r">>, <<"u","s">>, <<"t","h","e","m">>
}

(***************************************************************************)
(* collections.Counter                                                     *)
(***************************************************************************)
\* Counter(xs).items(): (key, count) pairs, keys in first-seen order.
Counter(xs) ==
    LET firsts == SelectSeq(Indices(xs),
                            LAMBDA k : \A j \in 1..(k-1) : xs[j] # xs[k])
    IN  list([k \in 1..Len(firsts) |-> <<xs[firsts[k]], count(xs, xs[firsts[k]])>>])

\* InsertByCount gone wrong: the item goes before the items of its own count,
\* so equal counts come out last-seen first.
InsertByCount_ties_reversed(sorted, item) ==
    LET p == Len(SelectSeq(sorted, LAMBDA e : e[2] > item[2]))
    IN  SubSeq(sorted, 1, p) \o <<item>> \o SubSeq(sorted, p + 1, Len(sorted))

\* One step of a stable sort by decreasing count: the item goes behind every
\* item whose count is at least its own.
InsertByCount(sorted, item) ==
    LET p == Len(SelectSeq(sorted, LAMBDA e : e[2] >= item[2]))
    IN  SubSeq(sorted, 1, p) \o <<item>> \o SubSeq(sorted, p + 1, Len(sorted))

RECURSIVE SortByCount(_, _)
SortByCount(items, k) ==
    IF k = 0 THEN <<>> ELSE InsertByCount(SortByCount(items, k - 1), items[k])

\* Counter.most_common(n): sorted(items, key=count, reverse=True)[:n], stable.
most_common(items, n) ==
    LET sorted == SortByCount(items, Len(items))
    IN  SubSeq(sorted, 1, Min(n, Len(sorted)))

(***************************************************************************)
(* class ContentAnalyzer (src/src/content_optimizer.py)                    *)
(***************************************************************************)
\* The Flesch constants, in thousandths: 206.835, 1.015 and 84.6 * 1.5.
FleschBase == 206835
FleschSentenceWeight == 1015
FleschSyllableTerm == 126900

\* The score with one syllable a word, 84.6 * 1.0, in place of 84.6 * 1.5.
FleschTenths_one_syllable_per_word(words, sentences) ==
    LET num == (FleschBase - 84600) * sentences - FleschSentenceWeight * words
        den == 1000 * sentences
    IN  IF num <= 0 THEN 0
        ELSE IF num >= 100 * den THEN 1000
        ELSE RoundHalfUp(num, 100 * sentences)

\* max(0, min(100, 206.835 - 1.015 * words / sentences - 84.6 * 1.5)) rounded
\* to 1 decimal, in tenths; sentences > 0.
FleschTenths(words, sentences) ==
    LET num == (FleschBase - FleschSyllableTerm) * sentences
               - FleschSentenceWeight * words     \* the score times 1000 * sentences
        den == 1000 * sentences
    IN  IF num <= 0 THEN 0
        ELSE IF num >= 100 * den THEN 1000
        ELSE RoundHalfUp(num, 100 * sentences)

\* get_top_keywords gone wrong: len(word) > 1 lets two-letter words through.
get_top_keywords_keeps_short_words(stops, text) ==
    LET words    == findall_words(lower(text))
        filtered == SelectSeq(words, LAMBDA w : w \notin stops /\ Len(w) > 1)
    IN  most_common(Counter(filtered), 10)

\* get_top_keywords(self, content)
get_top_keywords(stops, text) ==
    LET words    == findall_words(lower(text))
        filtered == SelectSeq(words, LAMBDA w : w \notin stops /\ Len(w) > 2)
    IN  most_common(Counter(filtered), 10)

\* calculate_readability(self, word_count, sentence_count), in tenths
calculate_readability(word_count, sentence_count) ==
    IF sentence_count = 0 THEN 0
    ELSE FleschTenths(word_count, sentence_count)

\* calculate_keyword_density gone wrong: the keyword is counted as a
\* substring of the lowercased content.
calculate_keyword_density_counts_substrings(text, keyword) ==
    IF ~Truthy(keyword) THEN 0
    ELSE LET all_words     == findall_words(lower(text))
             keyword_count == count_substring(lower(text), lower(keyword))
             total_words   == Len(all_words)
         IN  RoundDiv(keyword_count * 10000, Max(total_words, 1))

\* calculate_keyword_density gone wrong: the keyword is not lowercased.
calculate_keyword_density_case_sensitive(text, keyword) ==
    IF ~Truthy(keyword) THEN 0
    ELSE LET all_words     == findall_words(lower(text))
             keyword_count == count(all_words, keyword)
             total_words   == Len(all_words)
         IN  RoundDiv(keyword_count * 10000, Max(total_words, 1))

\* calculate_keyword_density(self, content, keyword), in hundredths of a percent
calculate_keyword_density(text, keyword) ==
    IF ~Truthy(keyword) THEN 0
    ELSE LET all_words     == findall_words(lower(text))
             keyword_count == count(all_words, lower(keyword))
             total_words   == Len(all_words)
         IN  RoundDiv(keyword_count * 10000, Max(total_words, 1))

\* calculate_seo_score gone wrong: the lower length band starts at 100 words.
calculate_seo_score_from_100_words(text, keyword, word_count) ==
    LET length    == IF 300 <= word_count /\ word_count <= 2000 THEN 25
                     ELSE IF word_count >= 100 THEN 15
                     ELSE 0
        structure == IF CountParagraphs(text) >= 3 THEN 20 ELSE 0
        sentences == IF Len(findall_terminals(text)) > 5 THEN 15 ELSE 0
        keyword_density == calculate_keyword_density(text, keyword)
        keywords  == IF Truthy(keyword)
                     THEN IF 100 <= keyword_density /\ keyword_density <= 300 THEN 25
                          ELSE IF keyword_density > 0 THEN 10
                          ELSE 0
                     ELSE 15
        headers   == IF HasHeader(text) THEN 15 ELSE 0
    IN  Min(100, length + structure + sentences + keywords + headers)

\* calculate_seo_score gone wrong: the bonus for no target keyword is subtracted.
calculate_seo_score_keyword_penalty(text, keyword, word_count) ==
    LET length    == IF 300 <= word_count /\ word_count <= 2000 THEN 25
                     ELSE IF word_count > 100 THEN 15
                     ELSE 0
        structure == IF CountParagraphs(text) >= 3 THEN 20 ELSE 0
        sentences == IF Len(findall_terminals(text)) > 5 THEN 15 ELSE 0
        keyword_density == calculate_keyword_density(text, keyword)
        keywords  == IF Truthy(keyword)
                     THEN IF 100 <= keyword_density /\ keyword_density <= 300 THEN 25
                          ELSE IF keyword_density > 0 THEN 10
                          ELSE 0
                     ELSE -15
        headers   == IF HasHeader(text) THEN 15 ELSE 0
    IN  Min(100, length + structure + sentences + keywords + headers)

\* calculate_seo_score(self, content, target_keyword, word_count)
calculate_seo_score(text, keyword, word_count) ==
    LET length    == IF 300 <= word_count /\ word_count <= 2000 THEN 25
                     ELSE IF word_count > 100 THEN 15
                     ELSE 0
        structure == IF CountParagraphs(text) >= 3 THEN 20 ELSE 0
        sentences == IF Len(findall_terminals(text)) > 5 THEN 15 ELSE 0
        keyword_density == calculate_keyword_density(text, keyword)
        keywords  == IF Truthy(keyword)
                     THEN IF 100 <= keyword_density /\ keyword_density <= 300 THEN 25
                          ELSE IF keyword_density > 0 THEN 10
                          ELSE 0
                     ELSE 15
        headers   == IF HasHeader(text) THEN 15 ELSE 0
    IN  Min(100, length + structure + sentences + keywords + headers)

ErrorResult == [error |-> "No content provided"]

\* analyze, past the guard: the analysis_result dict.
analysis_result(stops, text, keyword) ==
    LET words          == findall_words(lower(text))
        word_count     == Len(words)
        sentence_count == Len(findall_terminals(text))
    IN  [ word_count             |-> word_count,
          char_count             |-> Len(text),
          char_count_no_spaces   |-> Len(remove_spaces(text)),
          paragraph_count        |-> CountParagraphs(text),
          sentence_count         |-> sentence_count,
          avg_words_per_sentence |-> RoundDiv(word_count * 10, Max(sentence_count, 1)),
          readability_score      |-> calculate_readability(word_count, sentence_count),
          seo_score              |-> calculate_seo_score(text, keyword, word_count),
          top_keywords           |-> get_top_keywords(stops, text),
          keyword_density        |-> IF Truthy(keyword)
                                     THEN calculate_keyword_density(text, keyword)
                                     ELSE 0 ]

\* analyze gone wrong: the guard is content == "", which lets None through.
analyze_guards_empty_string_only(stops, text, keyword) ==
    IF text = <<>> THEN ErrorResult
    ELSE analysis_result(stops, text, keyword)

\* analyze(self, content, target_keyword=None)
analyze(stops, text, keyword) ==
    IF ~Truthy(text) THEN ErrorResult
    ELSE analysis_result(stops, text, keyword)

\* analysis[key] of a dict that may lack the key
HasKey(d, key) == key \in DOMAIN d

\* The suggestion records.  "current" is the f-string: the value, then its unit.
ContentLengthSuggestion(a) ==
    [ type       |-> "Content Length",
      priority   |-> "High",
      suggestion |-> <<"Increase content length to at least 300 words for better SEO">>,
      current    |-> <<a.word_count, " words">>,
      target     |-> "300+ words" ]

ReadabilitySuggestion(a) ==
    [ type       |-> "Readability",
      priority   |-> "Medium",
      suggestion |-> <<"Improve readability by using shorter sentences and simpler words">>,
      current    |-> <<a.readability_score, " score">>,
      target     |-> "60+ score" ]

KeywordLowSuggestion(a, keyword) ==
    [ type       |-> "Keyword Optimization",
      priority   |-> "High",
      suggestion |-> <<"Increase usage of target keyword \"", keyword, "\"">>,
      current    |-> <<a.keyword_density, "% density">>,
      target     |-> "1-3% density" ]

StructureSuggestion(a) ==
    [ type       |-> "Content Structure",
      priority   |-> "Medium",
      suggestion |-> <<"Break content into more paragraphs for better readability">>,
      current    |-> <<a.paragraph_count, " paragraphs">>,
      target     |-> "3+ paragraphs" ]

\* get_optimization_suggestions with the length rule written "<= 300".
get_optimization_suggestions_upto_300_words(a, keyword) ==
    IF ~HasKey(a, "word_count") THEN Raise("KeyError", "word_count")
    ELSE IF ~HasKey(a, "readability_score") THEN Raise("KeyError", "readability_score")
    ELSE IF Truthy(keyword) /\ ~HasKey(a, "keyword_density")
         THEN Raise("KeyError", "keyword_density")
    ELSE IF ~HasKey(a, "paragraph_count") THEN Raise("KeyError", "paragraph_count")
    ELSE Return(
           (IF a.word_count <= 300 THEN <<ContentLengthSuggestion(a)>> ELSE <<>>)
        \o (IF a.readability_score < 600 THEN <<ReadabilitySuggestion(a)>> ELSE <<>>)
        \o (IF Truthy(keyword) /\ a.keyword_density < 100
            THEN <<KeywordLowSuggestion(a, keyword)>> ELSE <<>>)
        \o (IF a.paragraph_count < 3 THEN <<StructureSuggestion(a)>> ELSE <<>>))

\* get_optimization_suggestions(self, analysis, target_keyword=None): the rules
\* read the dict in this order, and the first missing key raises KeyError.
\* keyword_density is read only when the keyword is truthy ("and").
get_optimization_suggestions(a, keyword) ==
    IF ~HasKey(a, "word_count") THEN Raise("KeyError", "word_count")
    ELSE IF ~HasKey(a, "readability_score") THEN Raise("KeyError", "readability_score")
    ELSE IF Truthy(keyword) /\ ~HasKey(a, "keyword_density")
         THEN Raise("KeyError", "keyword_density")
    ELSE IF ~HasKey(a, "paragraph_count") THEN Raise("KeyError", "paragraph_count")
    ELSE Return(
           (IF a.word_count < 300 THEN <<ContentLengthSuggestion(a)>> ELSE <<>>)
        \o (IF a.readability_score < 600 THEN <<ReadabilitySuggestion(a)>> ELSE <<>>)
        \o (IF Truthy(keyword) /\ a.keyword_density < 100
            THEN <<KeywordLowSuggestion(a, keyword)>> ELSE <<>>)
        \o (IF a.paragraph_count < 3 THEN <<StructureSuggestion(a)>> ELSE <<>>))

(***************************************************************************)
(* class ContentOptimizer (src/content_optimizer.py)                       *)
(***************************************************************************)
\* ContentOptimizer.calculate_keyword_density(self, content, keyword)
Optimizer_calculate_keyword_density(text, keyword) ==
    IF ~Truthy(keyword) THEN 0
    ELSE LET words         == split(lower(text))
             keyword_count == count_substring(lower(text), lower(keyword))
             total_words   == Len(words)
         IN  RoundDiv(keyword_count * 10000, Max(total_words, 1))

\* ContentOptimizer.calculate_seo_score(self, content, target_keyword=None)
Optimizer_calculate_seo_score(text, keyword) ==
    LET word_count == Len(split(text))
        length     == IF 300 <= word_count /\ word_count <= 2000 THEN 25
                      ELSE IF word_count > 100 THEN 15
                      ELSE 0
        structure  == IF CountParagraphs(text) >= 3 THEN 20 ELSE 0
        sentences  == IF Len(findall_terminals(text)) > 5 THEN 15 ELSE 0
        keyword_density == Optimizer_calculate_keyword_density(text, keyword)
        keywords   == IF Truthy(keyword)
                      THEN IF 100 <= keyword_density /\ keyword_density <= 300 THEN 25
                           ELSE IF keyword_density > 0 THEN 10
                           ELSE 0
                      ELSE 15
        headers    == IF HasHeader(text) THEN 15 ELSE 0
    IN  Min(100, length + structure + sentences + keywords + headers)

\* ContentOptimizer.analyze_content(self, content, target_keyword=None)
analyze_content(stops, text, keyword) ==
    IF ~Truthy(text) THEN ErrorResult
    ELSE LET word_count     == Len(split(text))
             sentence_count == Len(findall_terminals(text))
             words          == findall_words(lower(text))
             filtered_words == SelectSeq(words, LAMBDA w : w \notin stops /\ Len(w) > 2)
         IN  [ word_count             |-> word_count,
               char_count             |-> Len(text),
               char_count_no_spaces   |-> Len(remove_spaces(text)),
               paragraph_count        |-> CountParagraphs(text),
               sentence_count         |-> sentence_count,
               avg_words_per_sentence |-> RoundDiv(word_count * 10, Max(sentence_count, 1)),
               readability_score      |-> FleschTenths(word_count, Max(sentence_count, 1)),
               seo_score              |-> Optimizer_calculate_seo_score(text, keyword),
               top_keywords           |-> most_common(Counter(filtered_words), 10),
               keyword_density        |-> IF Truthy(keyword)
                                          THEN Optimizer_calculate_keyword_density(text, keyword)
                                          ELSE 0 ]

LongContentSuggestion(a) ==
    [ type       |-> "Content Length",
      priority   |-> "Medium",
      suggestion |-> <<"Consider breaking long content into multiple pages">>,
      current    |-> <<a.word_count, " words">>,
      target     |-> "300-2000 words" ]

KeywordStuffingSuggestion(a, keyword) ==
    [ type       |-> "Keyword Optimization",
      priority   |-> "Medium",
      suggestion |-> <<"Reduce keyword stuffing for \"", keyword, "\"">>,
      current    |-> <<a.keyword_density, "% density">>,
      target     |-> "1-3% density" ]

SentenceLengthSuggestion(a) ==
    [ type       |-> "Sentence Length",
      priority   |-> "Low",
      suggestion |-> <<"Use shorter sentences for better readability">>,
      current    |-> <<a.avg_words_per_sentence, " words/sentence">>,
      target     |-> "15-20 words/sentence" ]

\* get_optimization_suggestions with the long-content rule written as a
\* second "if", on word_count < 2000.
Optimizer_get_optimization_suggestions_long_under_2000(a, keyword) ==
    IF ~HasKey(a, "word_count") THEN Raise("KeyError", "word_count")
    ELSE IF ~HasKey(a, "readability_score") THEN Raise("KeyError", "readability_score")
    ELSE IF Truthy(keyword) /\ ~HasKey(a, "keyword_density")
         THEN Raise("KeyError", "keyword_density")
    ELSE IF ~HasKey(a, "paragraph_count") THEN Raise("KeyError", "paragraph_count")
    ELSE IF ~HasKey(a, "avg_words_per_sentence")
         THEN Raise("KeyError", "avg_words_per_sentence")
    ELSE Return(
           (IF a.word_count < 300 THEN <<ContentLengthSuggestion(a)>> ELSE <<>>)
        \o (IF a.word_count < 2000 THEN <<LongContentSuggestion(a)>> ELSE <<>>)
        \o (IF a.readability_score < 600 THEN <<ReadabilitySuggestion(a)>> ELSE <<>>)
        \o (IF Truthy(keyword) /\ a.keyword_density < 100
            THEN <<KeywordLowSuggestion(a, keyword)>>
            ELSE IF Truthy(keyword) /\ a.keyword_density > 300
            THEN <<KeywordStuffingSuggestion(a, keyword)>>
            ELSE <<>>)
        \o (IF a.paragraph_count < 3 THEN <<StructureSuggestion(a)>> ELSE <<>>)
        \o (IF a.avg_words_per_sentence > 200
            THEN <<SentenceLengthSuggestion(a)>> ELSE <<>>))

\* ContentOptimizer.get_optimization_suggestions(self, analysis, target_keyword=None)
Optimizer_get_optimization_suggestions(a, keyword) ==
    IF ~HasKey(a, "word_count") THEN Raise("KeyError", "word_count")
    ELSE IF ~HasKey(a, "readability_score") THEN Raise("KeyError", "readability_score")
    ELSE IF Truthy(keyword) /\ ~HasKey(a, "keyword_density")
         THEN Raise("KeyError", "keyword_density")
    ELSE IF ~HasKey(a, "paragraph_count") THEN Raise("KeyError", "paragraph_count")
    ELSE IF ~HasKey(a, "avg_words_per_sentence")
         THEN Raise("KeyError", "avg_words_per_sentence")
    ELSE Return(
           (IF a.word_count < 300 THEN <<ContentLengthSuggestion(a)>>
            ELSE IF a.word_count > 2000 THEN <<LongContentSuggestion(a)>>
            ELSE <<>>)
        \o (IF a.readability_score < 600 THEN <<ReadabilitySuggestion(a)>> ELSE <<>>)
        \o (IF Truthy(keyword) /\ a.keyword_density < 100
            THEN <<KeywordLowSuggestion(a, keyword)>>
            ELSE IF Truthy(keyword) /\ a.keyword_density > 300
            THEN <<KeywordStuffingSuggestion(a, keyword)>>
            ELSE <<>>)
        \o (IF a.paragraph_count < 3 THEN <<StructureSuggestion(a)>> ELSE <<>>)
        \o (IF a.avg_words_per_sentence > 200
            THEN <<SentenceLengthSuggestion(a)>> ELSE <<>>))

(***************************************************************************)
(* The callers' inputs.                                                    *)
(***************************************************************************)
MaxTokens == 3     \* tokens of a text typed from scratch
MaxTail == 1       \* tokens typed behind a prepared document
LongFill == 2000   \* words of the longest prepared document

Seo == <<"s","e","o">>
The == <<"t","h","e">>

\* What a caller types, token by token.
Tokens == { <<"S","e","o">>, The, <<" ">>, <<"\n">>, <<".">>, <<"#">>, <<"-">> }

TokenSeqs(k) == UNION {[1..m -> Tokens] : m \in 0..k}

RECURSIVE Flatten(_)
Flatten(ts) == IF ts = <<>> THEN <<>> ELSE Head(ts) \o Flatten(Tail(ts))

\* n words, "seo " every fiftieth and "the " otherwise.
Fill(n) ==
    list([i \in 1..(4 * n) |->
            LET w == (i - 1) \div 4
                c == ((i - 1) % 4) + 1
            IN  IF w % 50 = 0 THEN (Seo \o <<" ">>)[c] ELSE (The \o <<" ">>)[c]])

\* Three paragraphs, six sentence ends, a Markdown header line.
ParagraphSection == <<"-","\n","\n","-","\n","\n","-","\n","\n">>
SentenceSection == <<".", " ", "!", " ", "?", " ", ".", ".", ".", " ", "?", "!", " ", ".", " ">>
HeaderSection == <<"\n","#","#"," ">>

Document(n, p, s, h) ==
       Fill(n)
    \o (IF p THEN ParagraphSection ELSE <<>>)
    \o (IF s THEN SentenceSection ELSE <<>>)
    \o (IF h THEN HeaderSection ELSE <<>>)

\* Twelve distinct keywords, "bot" three times and "web" twice, among stop
\* words and a two-letter word.
KeywordsDocument == Flatten(<<
        <<"w","e","b">>, <<" ">>, <<"b","o","t">>, <<" ">>, <<"s","o">>, <<" ">>,
        <<"s","e","t">>, <<" ">>, <<"h","o","t">>, <<" ">>, <<"w","e","t">>, <<" ">>,
        <<"t","h","e">>, <<" ">>, <<"b","e","t">>, <<" ">>, <<"t","o","e">>, <<" ">>,
        <<"t","w","o">>, <<" ">>, <<"s","o","w">>, <<" ">>, <<"h","o","e">>, <<" ">>,
        <<"s","h","e">>, <<" ">>, <<"t","o","t">>, <<" ">>, <<"h","o","b">>, <<" ">>,
        <<"W","e","b">>, <<" ">>, <<"b","o","t">>, <<" ">>, <<"b","o","t">>, <<" ">>
    >>)

\* Documents a caller goes on typing behind; the empty one is typed from scratch.
Drafts ==
         {Document(n, p, s, h) : n \in {0, 50}, p \in BOOLEAN,
                                 s \in BOOLEAN, h \in BOOLEAN}
    \cup {KeywordsDocument}

\* Documents sent as they are, at the word-count thresholds.
LongDocuments ==
    { Fill(100), Fill(100) \o <<".">>, Fill(101), Fill(299), Fill(300),
      Document(300, TRUE, TRUE, TRUE), Fill(LongFill), Fill(LongFill + 1) }

\* Documents at the sentence-length thresholds: 20 and 21 words in one
\* sentence, 41 words in two.
SentenceDocuments ==
    { Fill(19) \o <<".">>, Fill(20) \o <<".">>, Fill(39) \o <<".", " ", ".">> }

Contents ==
         {None}
    \cup UNION { {d \o Flatten(t) :
                     t \in TokenSeqs(IF Len(d) = 0 THEN MaxTokens ELSE MaxTail)}
                 : d \in Drafts }
    \cup LongDocuments
    \cup SentenceDocuments

\* A two-word phrase, as the demo page submits.
Phrase == <<"S","e","o"," ","t","h","e">>

Keywords == {None, <<>>, <<"S","e","o">>, The, Phrase}

\* Metrics records a caller sends to the suggestion engine without having
\* asked the analyzer: any of the numeric fields may be missing.
NumericFields == {"word_count", "readability_score", "keyword_density",
                  "paragraph_count", "avg_words_per_sentence"}

FullMetrics ==
    [ word_count             : {299, 300, 2001},
      readability_score      : {599, 600},
      keyword_density        : {99, 100, 301},
      paragraph_count        : {2, 3},
      avg_words_per_sentence : {200, 201} ]

SuppliedMetrics == {[k \in S |-> m[k]] : m \in FullMetrics, S \in SUBSET NumericFields}

Classes == {"ContentAnalyzer", "ContentOptimizer"}

(***************************************************************************)
(* The state machine: one analyzer instance and one caller.                *)
(***************************************************************************)
\* analyzer = ContentAnalyzer() / optimizer = ContentOptimizer(); the caller
\* comes with a text to analyze, or with a metrics record of its own.
Init ==
    /\ cls \in Classes
    /\ stop_words = StopWords
    /\ target_keyword \in Keywords
    /\ \/ content \in Contents /\ analysis = NotCalled
       \/ content = None /\ analysis \in SuppliedMetrics
    /\ suggest = NotCalled
    /\ density = NotCalled
    /\ threads = <<>>
    /\ data = NotCalled
    /\ response = NotCalled

\* analyzer.analyze(content, target_keyword)
Analyze ==
    /\ cls = "ContentAnalyzer"
    /\ analysis' = analyze(stop_words, content, target_keyword)
    /\ UNCHANGED <<cls, stop_words, content, target_keyword, suggest, density,
                 threads, data, response>>

\* optimizer.analyze_content(content, target_keyword)
AnalyzeContent ==
    /\ cls = "ContentOptimizer"
    /\ analysis' = analyze_content(stop_words, content, target_keyword)
    /\ UNCHANGED <<cls, stop_words, content, target_keyword, suggest, density,
                 threads, data, response>>

\* analyzer.get_optimization_suggestions(analysis, target_keyword)
Suggest ==
    /\ cls = "ContentAnalyzer"
    /\ analysis # NotCalled
    /\ suggest' = [ arg     |-> analysis,
                    outcome |-> get_optimization_suggestions(analysis, target_keyword) ]
    /\ UNCHANGED <<cls, stop_words, content, target_keyword, analysis, density,
                 threads, data, response>>

\* optimizer.get_optimization_suggestions(analysis, target_keyword)
SuggestOptimizer ==
    /\ cls = "ContentOptimizer"
    /\ analysis # NotCalled
    /\ suggest' = [ arg     |-> analysis,
                    outcome |-> Optimizer_get_optimization_suggestions(analysis, target_keyword) ]
    /\ UNCHANGED <<cls, stop_words, content, target_keyword, analysis, density,
                 threads, data, response>>

\* The standalone calculate_keyword_density(content, keyword): a falsy keyword
\* returns 0 before the text is touched, None.lower() raises AttributeError.
KeywordDensity ==
    /\ density' =
          IF ~Truthy(target_keyword) THEN Return(0)
          ELSE IF content = None THEN Raise("AttributeError", "lower")
          ELSE Return(IF cls = "ContentAnalyzer"
                      THEN calculate_keyword_density(content, target_keyword)
                      ELSE Optimizer_calculate_keyword_density(content, target_keyword))
    /\ UNCHANGED <<cls, stop_words, content, target_keyword, analysis, suggest,
                 threads, data, response>>

Next ==
    \/ Analyze
    \/ AnalyzeContent
    \/ Suggest
    \/ SuggestOptimizer
    \/ KeywordDensity

Spec == Init /\ [][Next]_vars

(***************************************************************************)
(* Several callers on one ContentAnalyzer.  src/src/app.py holds one       *)
(* module-level analyzer and Flask serves every request on a thread of its *)
(* own, so calls overlap.  A call advances one block of statements at a    *)
(* time; its arguments and locals are its own, self.stop_words is the      *)
(* instance's.                                                             *)
(***************************************************************************)
NumThreads == 2    \* calls in progress at a time

Threads == 1..NumThreads

ConcurrentContents ==
    { <<>>,
      Flatten(<< <<"S","e","o">>, <<" ">>, The, <<" ">>, Seo, <<".">> >>),
      KeywordsDocument }

ConcurrentKeywords == {None, <<"S","e","o">>}

ConcurrentMetrics ==
    { ErrorResult,
      [word_count |-> 299, readability_score |-> 599,
       keyword_density |-> 99, paragraph_count |-> 2],
      [word_count |-> 300, readability_score |-> 600,
       keyword_density |-> 100, paragraph_count |-> 3] }

\* The calls a request handler makes on the analyzer.
Calls ==
         [op : {"analyze"}, content : ConcurrentContents,
          target_keyword : ConcurrentKeywords, analysis : {None}]
    \cup [op : {"get_optimization_suggestions"}, content : {None},
          target_keyword : ConcurrentKeywords, analysis : ConcurrentMetrics]

\* A call at its first statement, with no locals yet.
Start(call) ==
    [ op             |-> call.op,
      content        |-> call.content,
      target_keyword |-> call.target_keyword,
      analysis       |-> call.analysis,
      pc             |-> IF call.op = "analyze" THEN "guard" ELSE "length",
      locals         |-> <<>>,
      result         |-> NotCalled ]

ConcurrentInit ==
    /\ cls = "ContentAnalyzer"
    /\ stop_words = StopWords
    /\ content = None
    /\ target_keyword = None
    /\ analysis = NotCalled
    /\ suggest = NotCalled
    /\ density = NotCalled
    /\ data = NotCalled
    /\ response = NotCalled
    /\ threads \in [Threads -> {Start(call) : call \in Calls}]

\* analyze: if not content: return {'error': ...}
AnalyzeGuard(t) ==
    /\ threads[t].pc = "guard"
    /\ threads' = [threads EXCEPT ![t] =
          IF ~Truthy(threads[t].content)
          THEN [@ EXCEPT !.pc = "done", !.result = Return(ErrorResult)]
          ELSE [@ EXCEPT !.pc = "words"]]
    /\ UNCHANGED <<cls, stop_words, content, target_keyword, analysis, suggest,
                   density, data, response>>

\* analyze: words, word_count and sentence_count
AnalyzeWords(t) ==
    /\ threads[t].pc = "words"
    /\ threads' = [threads EXCEPT ![t] =
          LET words == findall_words(lower(threads[t].content))
          IN  [@ EXCEPT !.pc = "metrics",
                        !.locals = [ words          |-> words,
                                     word_count     |-> Len(words),
                                     sentence_count |->
                                         Len(findall_terminals(threads[t].content)) ]]]
    /\ UNCHANGED <<cls, stop_words, content, target_keyword, analysis, suggest,
                   density, data, response>>

\* analyze with a target keyword that is, as a side effect, added to
\* self.stop_words so that it is left out of top_keywords.
AnalyzeMetrics_excludes_keyword(t) ==
    /\ threads[t].pc = "metrics"
    /\ stop_words' = IF Truthy(threads[t].target_keyword)
                     THEN stop_words \cup {lower(threads[t].target_keyword)}
                     ELSE stop_words
    /\ threads' = [threads EXCEPT ![t] =
          LET text    == threads[t].content
              keyword == threads[t].target_keyword
              l       == threads[t].locals
          IN  [@ EXCEPT !.pc = "done",
                        !.result = Return(
            [ word_count             |-> l.word_count,
              char_count             |-> Len(text),
              char_count_no_spaces   |-> Len(remove_spaces(text)),
              paragraph_count        |-> CountParagraphs(text),
              sentence_count         |-> l.sentence_count,
              avg_words_per_sentence |->
                  RoundDiv(l.word_count * 10, Max(l.sentence_count, 1)),
              readability_score      |->
                  calculate_readability(l.word_count, l.sentence_count),
              seo_score              |-> calculate_seo_score(text, keyword, l.word_count),
              top_keywords           |-> get_top_keywords(stop_words', text),
              keyword_density        |-> IF Truthy(keyword)
                                         THEN calculate_keyword_density(text, keyword)
                                         ELSE 0 ])]]
    /\ UNCHANGED <<cls, content, target_keyword, analysis, suggest,
                   density, data, response>>

\* analyze: analysis_result = {...}; return analysis_result.  get_top_keywords
\* reads self.stop_words.
AnalyzeMetrics(t) ==
    /\ threads[t].pc = "metrics"
    /\ threads' = [threads EXCEPT ![t] =
          LET text    == threads[t].content
              keyword == threads[t].target_keyword
              l       == threads[t].locals
          IN  [@ EXCEPT !.pc = "done",
                        !.result = Return(
            [ word_count             |-> l.word_count,
              char_count             |-> Len(text),
              char_count_no_spaces   |-> Len(remove_spaces(text)),
              paragraph_count        |-> CountParagraphs(text),
              sentence_count         |-> l.sentence_count,
              avg_words_per_sentence |->
                  RoundDiv(l.word_count * 10, Max(l.sentence_count, 1)),
              readability_score      |->
                  calculate_readability(l.word_count, l.sentence_count),
              seo_score              |-> calculate_seo_score(text, keyword, l.word_count),
              top_keywords           |-> get_top_keywords(stop_words, text),
              keyword_density        |-> IF Truthy(keyword)
                                         THEN calculate_keyword_density(text, keyword)
                                         ELSE 0 ])]]
    /\ UNCHANGED <<cls, stop_words, content, target_keyword, analysis, suggest,
                   density, data, response>>

\* One rule of get_optimization_suggestions: analysis[key] raises KeyError when
\* the key is missing, else the rule appends to the local list or does not.
RuleStep(th, reads, key, fires, suggestion, next) ==
    IF reads /\ ~HasKey(th.analysis, key)
    THEN [th EXCEPT !.pc = "done", !.result = Raise("KeyError", key)]
    ELSE [th EXCEPT !.pc = next,
                    !.locals = IF reads /\ fires THEN Append(@, suggestion) ELSE @]

\* if analysis['word_count'] < 300
SuggestLength(t) ==
    /\ threads[t].pc = "length"
    /\ threads' = [threads EXCEPT ![t] =
          RuleStep(@, TRUE, "word_count", @.analysis.word_count < 300,
                   ContentLengthSuggestion(@.analysis), "readability")]
    /\ UNCHANGED <<cls, stop_words, content, target_keyword, analysis, suggest,
                   density, data, response>>

\* if analysis['readability_score'] < 60
SuggestReadability(t) ==
    /\ threads[t].pc = "readability"
    /\ threads' = [threads EXCEPT ![t] =
          RuleStep(@, TRUE, "readability_score", @.analysis.readability_score < 600,
                   ReadabilitySuggestion(@.analysis), "keyword")]
    /\ UNCHANGED <<cls, stop_words, content, target_keyword, analysis, suggest,
                   density, data, response>>

\* if target_keyword and analysis['keyword_density'] < 1
SuggestKeyword(t) ==
    /\ threads[t].pc = "keyword"
    /\ threads' = [threads EXCEPT ![t] =
          RuleStep(@, Truthy(@.target_keyword), "keyword_density",
                   @.analysis.keyword_density < 100,
                   KeywordLowSuggestion(@.analysis, @.target_keyword), "structure")]
    /\ UNCHANGED <<cls, stop_words, content, target_keyword, analysis, suggest,
                   density, data, response>>

\* if analysis['paragraph_count'] < 3
SuggestStructure(t) ==
    /\ threads[t].pc = "structure"
    /\ threads' = [threads EXCEPT ![t] =
          RuleStep(@, TRUE, "paragraph_count", @.analysis.paragraph_count < 3,
                   StructureSuggestion(@.analysis), "return")]
    /\ UNCHANGED <<cls, stop_words, content, target_keyword, analysis, suggest,
                   density, data, response>>

\* return suggestions
SuggestReturn(t) ==
    /\ threads[t].pc = "return"
    /\ threads' = [threads EXCEPT ![t] =
          [@ EXCEPT !.pc = "done", !.result = Return(threads[t].locals)]]
    /\ UNCHANGED <<cls, stop_words, content, target_keyword, analysis, suggest,
                   density, data, response>>

ConcurrentNext ==
    \E t \in Threads :
        \/ AnalyzeGuard(t)
        \/ AnalyzeWords(t)
        \/ AnalyzeMetrics(t)
        \/ SuggestLength(t)
        \/ SuggestReadability(t)
        \/ SuggestKeyword(t)
        \/ SuggestStructure(t)
        \/ SuggestReturn(t)

ConcurrentSpec == ConcurrentInit /\ [][ConcurrentNext]_vars

(***************************************************************************)
(* The HTTP layer: the routes of src/src/app.py (ContentAnalyzer) and of   *)
(* src/content_optimizer.py (ContentOptimizer).  data is what              *)
(* request.get_json() handed to the handler: None, or the body's dict.     *)
(* An exception that leaves a handler is answered by Flask with status 500.*)
(***************************************************************************)
\* request.get_json() returned None
NoJson == [no_json |-> TRUE]

\* {}
EmptyDict == [k \in {} |-> None]

\* data.get(key, default)
Get(d, key, default) == IF key \in DOMAIN d THEN d[key] ELSE default

\* A body's dict with the keys of S only.
Restrict(d, S) == [k \in S |-> d[k]]

HttpContents ==
    { <<>>, <<" ">>, <<"\n", " ">>,
      Flatten(<< <<"S","e","o">>, <<" ">>, The, <<".">> >>) }

HttpMetrics ==
    { EmptyDict,
      [word_count |-> 150, readability_score |-> 700,
       keyword_density |-> 200, paragraph_count |-> 5],
      [word_count |-> 500, readability_score |-> 500,
       keyword_density |-> 50, paragraph_count |-> 1,
       avg_words_per_sentence |-> 250] }

\* The JSON bodies: any of the keys may be left out.
Bodies ==
    {NoJson} \cup
    { Restrict(d, S) :
        d \in [content : HttpContents, target_keyword : {None, <<"S","e","o">>},
               analysis : HttpMetrics],
        S \in SUBSET {"content", "target_keyword", "analysis"} }

InvalidBody == [status |-> 400, body |-> [error |-> "Invalid or missing JSON body"]]

\* jsonify(value), status 200
Ok(value) == [status |-> 200, body |-> value]

\* An unhandled exception
InternalServerError(exception) == [status |-> 500, body |-> exception]

HttpInit ==
    /\ cls \in Classes
    /\ stop_words = StopWords
    /\ data \in Bodies
    /\ content = None
    /\ target_keyword = None
    /\ analysis = NotCalled
    /\ suggest = NotCalled
    /\ density = NotCalled
    /\ threads = <<>>
    /\ response = NotCalled

\* src/src/app.py: POST /api/analyze
api_analyze ==
    /\ cls = "ContentAnalyzer"
    /\ response = NotCalled
    /\ IF data = NoJson
       THEN /\ response' = InvalidBody
            /\ UNCHANGED <<content, target_keyword, analysis>>
       ELSE /\ content' = Get(data, "content", <<>>)
            /\ target_keyword' = Get(data, "target_keyword", None)
            /\ analysis' = analyze(stop_words, content', target_keyword')
            /\ response' = Ok(analysis')
    /\ UNCHANGED <<cls, stop_words, suggest, density, threads, data>>

\* src/src/app.py: POST /api/suggestions
api_suggestions ==
    /\ cls = "ContentAnalyzer"
    /\ response = NotCalled
    /\ IF data = NoJson
       THEN /\ response' = InvalidBody
            /\ UNCHANGED <<target_keyword, analysis, suggest>>
       ELSE /\ analysis' = Get(data, "analysis", EmptyDict)
            /\ target_keyword' = Get(data, "target_keyword", None)
            /\ suggest' = [ arg     |-> analysis',
                            outcome |-> get_optimization_suggestions(analysis',
                                                                     target_keyword') ]
            /\ response' = IF Returned(suggest'.outcome)
                           THEN Ok(suggest'.outcome.ret)
                           ELSE InternalServerError(suggest'.outcome)
    /\ UNCHANGED <<cls, stop_words, content, density, threads, data>>

\* src/content_optimizer.py: POST /api/analyze.  data.get of None raises
\* AttributeError.
route_analyze_content ==
    /\ cls = "ContentOptimizer"
    /\ response = NotCalled
    /\ IF data = NoJson
       THEN /\ response' = InternalServerError(Raise("AttributeError", "get"))
            /\ UNCHANGED <<content, target_keyword, analysis>>
       ELSE /\ content' = Get(data, "content", <<>>)
            /\ target_keyword' = Get(data, "target_keyword", None)
            /\ analysis' = analyze_content(stop_words, content', target_keyword')
            /\ response' = Ok(analysis')
    /\ UNCHANGED <<cls, stop_words, suggest, density, threads, data>>

\* src/content_optimizer.py: POST /api/suggestions
route_get_suggestions ==
    /\ cls = "ContentOptimizer"
    /\ response = NotCalled
    /\ IF data = NoJson
       THEN /\ response' = InternalServerError(Raise("AttributeError", "get"))
            /\ UNCHANGED <<target_keyword, analysis, suggest>>
       ELSE /\ analysis' = Get(data, "analysis", EmptyDict)
            /\ target_keyword' = Get(data, "target_keyword", None)
            /\ suggest' = [ arg     |-> analysis',
                            outcome |-> Optimizer_get_optimization_suggestions(
                                            analysis', target_keyword') ]
            /\ response' = IF Returned(suggest'.outcome)
                           THEN Ok(suggest'.outcome.ret)
                           ELSE InternalServerError(suggest'.outcome)
    /\ UNCHANGED <<cls, stop_words, content, density, threads, data>>

HttpNext ==
    \/ api_analyze
    \/ api_suggestions
    \/ route_analyze_content
    \/ route_get_suggestions

HttpSpec == HttpInit /\ [][HttpNext]_vars

(***************************************************************************)
(* Properties.                                                             *)
(***************************************************************************)
\* The caller holds the record the analyzer returned for a non-empty text
\* (a caller that brings its own record has no text).
Analyzed == Truthy(content) /\ analysis # NotCalled

\* A record the analyzer can return: the error sentinel or a full metrics record.
IsAnalyzerOutput(a) == a = ErrorResult \/ HasKey(a, "seo_score")

Abs(x) == IF x < 0 THEN -x ELSE x

\* The suggestion engine of the instance.
Engine(a, keyword) ==
    IF cls = "ContentAnalyzer"
    THEN get_optimization_suggestions(a, keyword)
    ELSE Optimizer_get_optimization_suggestions(a, keyword)

Types(suggestions) == [i \in 1..Len(suggestions) |-> suggestions[i].type]

\* C1: analyze called with content "" or None returns, for every target
\* keyword, the record whose only field is error = "No content provided".
C1_EmptyContentYieldsError ==
    [][(Analyze /\ ~Truthy(content)) => analysis' = [error |-> "No content provided"]]_vars

C1_Witness ==
    /\ cls = "ContentAnalyzer"
    /\ content = None
    /\ Truthy(target_keyword)
    /\ analysis = ErrorResult

\* C2: get_optimization_suggestions(analyze(text, kw), kw) returns a list and
\* never raises, also when analyze returned the error sentinel.
C2_SuggestAfterAnalyzeNeverRaises ==
    (suggest # NotCalled /\ IsAnalyzerOutput(suggest.arg))
        => Returned(suggest.outcome)

\* C3: get_optimization_suggestions accepts a metrics record from which any
\* numeric fields are missing: it never raises and decides every rule as if
\* each missing field were 0.
WithDefaults(a) == [k \in NumericFields |-> IF k \in DOMAIN a THEN a[k] ELSE 0]

C3_MissingFieldsDefaultToZero ==
    (suggest # NotCalled /\ DOMAIN suggest.arg \subseteq NumericFields)
        => /\ Returned(suggest.outcome)
           /\ Types(suggest.outcome.ret)
                  = Types(Engine(WithDefaults(suggest.arg), target_keyword).ret)

\* C4: for non-empty content the word_count of ContentAnalyzer.analyze is the
\* number of whitespace-delimited tokens, len(content.split()).
C4_WordCountIsSplitCount ==
    (cls = "ContentAnalyzer" /\ Analyzed)
        => analysis.word_count = Len(split(content))

\* C5: the seo_score of analyze is min(100, L + P + S + K + H), the bonuses
\* decided by the word_count, paragraph_count, sentence_count and
\* keyword_density that analyze reports and by the header marker in the text.
ContainsHeaderMarker(s) ==
    \E i \in 1..Len(s) :
        /\ s[i] = "\n"
        /\ \E j \in (i+1)..(Len(s)-1) :
              /\ \A k \in (i+1)..j : s[k] = "#"
              /\ s[j+1] \in Whitespace

ExpectedSeoScore(a, text, keyword) ==
    LET L == IF 300 <= a.word_count /\ a.word_count <= 2000 THEN 25
             ELSE IF a.word_count > 100 THEN 15 ELSE 0
        P == IF a.paragraph_count >= 3 THEN 20 ELSE 0
        S == IF a.sentence_count > 5 THEN 15 ELSE 0
        K == IF ~Truthy(keyword) THEN 15
             ELSE IF 100 <= a.keyword_density /\ a.keyword_density <= 300 THEN 25
             ELSE IF a.keyword_density > 0 THEN 10
             ELSE 0
        H == IF ContainsHeaderMarker(text) THEN 15 ELSE 0
    IN  Min(100, L + P + S + K + H)

C5_SeoScoreFormula ==
    (cls = "ContentAnalyzer" /\ Analyzed)
        => analysis.seo_score = ExpectedSeoScore(analysis, content, target_keyword)

C5_Witness ==
    /\ cls = "ContentAnalyzer"
    /\ Analyzed
    /\ Truthy(target_keyword)
    /\ analysis.word_count = 300
    /\ analysis.seo_score = 100

\* C6: for non-empty content the seo_score is an integer from 0 to 100.
C6_SeoScoreInRange ==
    Analyzed => analysis.seo_score \in 0..100

C6_Witness ==
    /\ cls = "ContentOptimizer"
    /\ Analyzed
    /\ analysis.seo_score = 100

\* C7: for non-empty content the readability_score of either analyzer lies
\* in [0, 100], and is exactly 0.0 when the content holds no '.', '!' or '?'.
C7_ReadabilityRangeAndZeroSentences ==
    Analyzed
        => /\ analysis.readability_score \in 0..1000
           /\ (\A i \in 1..Len(content) : content[i] \notin {".", "!", "?"})
                  => analysis.readability_score = 0

\* C8: the keyword_density of analyze(content, keyword) is the standalone
\* calculate_keyword_density(content, keyword): 100 times the words equal to
\* the lowercased keyword over max(words, 1), rounded to 2 decimals; it is 0
\* when no keyword is given.
IsDensity(d, text, keyword) ==
    LET words == findall_words(lower(text))
        k     == Cardinality({i \in 1..Len(words) : words[i] = lower(keyword)})
        n     == Max(Len(words), 1)
    IN  2 * Abs(d * n - 10000 * k) <= n     \* d is k / n in hundredths of a percent, rounded

C8_KeywordDensityConsistent ==
    (cls = "ContentAnalyzer" /\ Analyzed)
        => /\ IF Truthy(target_keyword)
              THEN IsDensity(analysis.keyword_density, content, target_keyword)
              ELSE analysis.keyword_density = 0
           /\ Returned(density) => density.ret = analysis.keyword_density

C8_Witness ==
    /\ cls = "ContentAnalyzer"
    /\ Analyzed
    /\ target_keyword = <<"S","e","o">>
    /\ Returned(density)
    /\ density.ret = 200
    /\ analysis.keyword_density = 200

\* C9: top_keywords has at most 10 entries, none of them a stop word or a
\* word of length <= 2.
C9_TopKeywordsFiltered ==
    Analyzed
        => /\ Len(analysis.top_keywords) <= 10
           /\ \A i \in 1..Len(analysis.top_keywords) :
                 /\ analysis.top_keywords[i][1] \notin stop_words
                 /\ Len(analysis.top_keywords[i][1]) > 2

\* The text holds more than ten eligible words, a stop word and a short word.
C9_Witness ==
    /\ Analyzed
    /\ Len(analysis.top_keywords) = 10
    /\ LET words == findall_words(lower(content))
       IN  /\ \E i \in 1..Len(words) : words[i] \in stop_words
           /\ \E i \in 1..Len(words) : Len(words[i]) <= 2 /\ words[i] \notin stop_words

\* C10: top_keywords is ordered by non-increasing frequency, equal
\* frequencies in the order the words first occur, every count is the number
\* of occurrences of the word among the lowercased regex words, and no
\* eligible word left out is more frequent than one that is in.
Occurrences(words, w) == Cardinality({i \in 1..Len(words) : words[i] = w})

FirstOccurrence(words, w) ==
    CHOOSE i \in 1..Len(words) : words[i] = w /\ \A j \in 1..(i-1) : words[j] # w

C10_TopKeywordsOrdered ==
    Analyzed
        => LET words == findall_words(lower(content))
               top   == analysis.top_keywords
               In(w) == \E i \in 1..Len(top) : top[i][1] = w
           IN  /\ \A i \in 1..Len(top) : top[i][2] = Occurrences(words, top[i][1])
               /\ \A i \in 1..Len(top) : \A j \in (i+1)..Len(top) :
                     /\ top[i][2] >= top[j][2]
                     /\ top[i][2] = top[j][2]
                           => FirstOccurrence(words, top[i][1])
                                  < FirstOccurrence(words, top[j][1])
               /\ \A k \in 1..Len(words) :
                     (words[k] \notin stop_words /\ Len(words[k]) > 2 /\ ~In(words[k]))
                         => \A i \in 1..Len(top) :
                               Occurrences(words, words[k]) <= top[i][2]

\* Frequencies 3, 2 and a tie at 1, with eligible words left out.
C10_Witness ==
    /\ Analyzed
    /\ Len(analysis.top_keywords) = 10
    /\ analysis.top_keywords[1][2] = 3
    /\ analysis.top_keywords[2][2] = 2
    /\ analysis.top_keywords[3][2] = 1
    /\ analysis.top_keywords[10][2] = 1

\* C11: for a metrics record that carries word_count, readability_score,
\* keyword_density and paragraph_count, ContentAnalyzer's
\* get_optimization_suggestions returns a Content Length suggestion iff
\* word_count < 300, a Readability one iff readability_score < 60, a Keyword
\* Optimization one iff a keyword is given and keyword_density < 1, and a
\* Content Structure one iff paragraph_count < 3, and nothing else.
HasType(suggestions, type) == \E i \in 1..Len(suggestions) : suggestions[i].type = type

BasicFields == {"word_count", "readability_score", "keyword_density", "paragraph_count"}

C11_SuggestionRulesFire ==
    (cls = "ContentAnalyzer" /\ suggest # NotCalled
                             /\ BasicFields \subseteq DOMAIN suggest.arg)
        => /\ Returned(suggest.outcome)
           /\ LET a     == suggest.arg
                   ret   == suggest.outcome.ret
                   fired == {<<"Content Length", a.word_count < 300>>,
                             <<"Readability", a.readability_score < 600>>,
                             <<"Keyword Optimization",
                               Truthy(target_keyword) /\ a.keyword_density < 100>>,
                             <<"Content Structure", a.paragraph_count < 3>>}
               IN  /\ \A f \in fired : HasType(ret, f[1]) <=> f[2]
                   /\ Len(ret) = Cardinality({f \in fired : f[2]})

\* Example 4 of the spec: only the length rule fires.
C11_Witness ==
    /\ cls = "ContentAnalyzer"
    /\ suggest # NotCalled
    /\ ~Truthy(target_keyword)
    /\ BasicFields \subseteq DOMAIN suggest.arg
    /\ suggest.arg.word_count < 300
    /\ suggest.arg.readability_score >= 600
    /\ suggest.arg.paragraph_count >= 3
    /\ Returned(suggest.outcome)
    /\ Types(suggest.outcome.ret) = <<"Content Length">>

\* C12: with a target keyword and keyword_density > 3 the suggestion engine
\* returns exactly one Keyword Optimization suggestion, of priority Medium and
\* target "1-3% density"; with 1 <= keyword_density <= 3 it returns none.
OfType(suggestions, type) == SelectSeq(suggestions, LAMBDA s : s.type = type)

C12_KeywordStuffingRule ==
    (suggest # NotCalled /\ Returned(suggest.outcome) /\ Truthy(target_keyword)
                         /\ HasKey(suggest.arg, "keyword_density"))
        => LET percent == suggest.arg.keyword_density
               keyword == OfType(suggest.outcome.ret, "Keyword Optimization")
           IN  /\ percent > 300
                     => /\ Len(keyword) = 1
                        /\ keyword[1].priority = "Medium"
                        /\ keyword[1].target = "1-3% density"
               /\ (100 <= percent /\ percent <= 300) => keyword = <<>>

\* C13: with avg_words_per_sentence > 20 the suggestion engine returns a
\* Sentence Length suggestion, of priority Low and target "15-20
\* words/sentence", as the last entry of the list; with
\* avg_words_per_sentence <= 20 it returns none.
C13_SentenceLengthRule ==
    (suggest # NotCalled /\ Returned(suggest.outcome)
                         /\ HasKey(suggest.arg, "avg_words_per_sentence"))
        => LET ret == suggest.outcome.ret
           IN  IF suggest.arg.avg_words_per_sentence > 200
               THEN /\ ret # <<>>
                    /\ ret[Len(ret)].type = "Sentence Length"
                    /\ ret[Len(ret)].priority = "Low"
                    /\ ret[Len(ret)].target = "15-20 words/sentence"
                    /\ Len(OfType(ret, "Sentence Length")) = 1
               ELSE OfType(ret, "Sentence Length") = <<>>

\* C14: calls to analyze and get_optimization_suggestions that overlap on one
\* shared analyzer each return what the same call returns when run alone, and
\* no step of a call writes the stop-word set or changes the arguments
\* (the metrics record among them) of any call.
Alone(call) ==
    IF call.op = "analyze"
    THEN Return(analyze(StopWords, call.content, call.target_keyword))
    ELSE get_optimization_suggestions(call.analysis, call.target_keyword)

C14_ConcurrentCallsIndependent ==
    [][ /\ stop_words' = stop_words
        /\ \A t \in Threads :
              /\ threads'[t].op = threads[t].op
              /\ threads'[t].content = threads[t].content
              /\ threads'[t].target_keyword = threads[t].target_keyword
              /\ threads'[t].analysis = threads[t].analysis
              /\ threads'[t].pc = "done" => threads'[t].result = Alone(threads'[t])
      ]_vars

\* A call has returned the metrics of a text while a call with the same
\* arguments is still under way, about to read self.stop_words.
C14_Witness ==
    /\ threads # <<>>
    /\ threads[1].op = "analyze"
    /\ threads[1].pc = "done"
    /\ Truthy(threads[1].content)
    /\ Len(threads[1].result.ret.top_keywords) = 10
    /\ threads[2].op = "analyze"
    /\ threads[2].pc = "metrics"
    /\ threads[2].content = threads[1].content
    /\ threads[2].target_keyword = threads[1].target_keyword

\* C15: a POST to /api/analyze or /api/suggestions whose JSON body is missing
\* or invalid is answered with status 400 and the body
\* {"error": "Invalid or missing JSON body"} without a call of the analyzer;
\* a POST to /api/analyze with a valid body and empty content is answered
\* with status 200 and the error sentinel.
C15_InvalidBodyIs400 ==
    [][ /\ (HttpNext /\ data = NoJson)
              => /\ response' = [status |-> 400,
                                 body   |-> [error |-> "Invalid or missing JSON body"]]
                 /\ analysis' = NotCalled
                 /\ suggest' = NotCalled
        /\ ((api_analyze \/ route_analyze_content)
                /\ data # NoJson /\ Get(data, "content", <<>>) = <<>>)
              => response' = [status |-> 200,
                              body   |-> [error |-> "No content provided"]]
      ]_vars

\* C16: for content that is not empty but holds only whitespace, analyze
\* returns the error object instead of a metrics record.
C16_WhitespaceContentYieldsError ==
    (Analyzed /\ \A i \in 1..Len(content) : content[i] \in Whitespace)
        => /\ HasKey(analysis, "error")
           /\ ~HasKey(analysis, "word_count")

\* C17: the list get_optimization_suggestions returns follows the fixed order
\* Content Length, Readability, Keyword Optimization, Content Structure,
\* Sentence Length with every type at most once, so it has at most 5
\* entries; every priority is High, Medium or Low.
TypeOrder ==
    <<"Content Length", "Readability", "Keyword Optimization",
      "Content Structure", "Sentence Length">>

Position(type) == CHOOSE i \in 1..Len(TypeOrder) : TypeOrder[i] = type

C17_SuggestionsFollowTypeOrder ==
    (suggest # NotCalled /\ Returned(suggest.outcome))
        => LET ret == suggest.outcome.ret
           IN  /\ Len(ret) <= 5
               /\ \A i \in 1..Len(ret) :
                     /\ \E k \in 1..Len(TypeOrder) : TypeOrder[k] = ret[i].type
                     /\ ret[i].priority \in {"High", "Medium", "Low"}
               /\ \A i \in 1..Len(ret) : \A j \in (i+1)..Len(ret) :
                     Position(ret[i].type) < Position(ret[j].type)

\* All five rules fire, the keyword rule on stuffing.
C17_Witness ==
    /\ suggest # NotCalled
    /\ Returned(suggest.outcome)
    /\ Len(suggest.outcome.ret) = 5
    /\ suggest.outcome.ret[3].priority = "Medium"

\* C18: for non-empty content sentence_count is the number of maximal runs of
\* '.', '!' and '?' in the content, and avg_words_per_sentence is the
\* reported word_count over max(sentence_count, 1), rounded to 1 decimal.
SentenceEnds(text) ==
    {i \in 1..Len(text) :
        /\ text[i] \in {".", "!", "?"}
        /\ (i = 1 \/ text[i-1] \notin {".", "!", "?"})}

C18_SentenceCountAndAverage ==
    Analyzed
        => /\ analysis.sentence_count = Cardinality(SentenceEnds(content))
           /\ LET n == Max(analysis.sentence_count, 1)
              IN  2 * Abs(analysis.avg_words_per_sentence * n
                              - 10 * analysis.word_count) <= n

\* Fifty words and the sentence ends ". ! ? ... ?! .": six sentences, 8.3
\* words a sentence.
C18_Witness ==
    /\ Analyzed
    /\ \E i \in 1..(Len(content) - 2) :
          content[i] = "." /\ content[i+1] = "." /\ content[i+2] = "."
    /\ \E i \in 1..(Len(content) - 1) : content[i] = "?" /\ content[i+1] = "!"
    /\ analysis.sentence_count = 6
    /\ analysis.word_count = 50
    /\ analysis.avg_words_per_sentence = 83

\* C19: for every metrics record ContentOptimizer.analyze_content returns for
\* non-empty content, readability_score is at most 79.9, and whenever
\* get_optimization_suggestions emits the Sentence Length suggestion for it,
\* it emits the Readability suggestion before it.
C19_ReadabilityCapAndSentenceLength ==
    (cls = "ContentOptimizer" /\ Analyzed)
        => /\ analysis.readability_score <= 799
           /\ (suggest # NotCalled /\ suggest.arg = analysis)
                 => LET types == Types(suggest.outcome.ret)
                    IN  \A j \in 1..Len(types) :
                           types[j] = "Sentence Length"
                               => \E i \in 1..(j-1) : types[i] = "Readability"

\* Twenty-one words in one sentence: 58.6, just under the readability
\* threshold, and both suggestions.
C19_Witness ==
    /\ cls = "ContentOptimizer"
    /\ Analyzed
    /\ suggest # NotCalled
    /\ suggest.arg = analysis
    /\ analysis.avg_words_per_sentence = 210
    /\ analysis.readability_score = 586
    /\ HasType(suggest.outcome.ret, "Sentence Length")
    /\ HasType(suggest.outcome.ret, "Readability")

\* C20: ContentAnalyzer.calculate_keyword_density returns 0 for a keyword
\* that holds a character outside the word characters, also when the phrase
\* occurs in the content; for such a keyword analyze adds no keyword bonus to
\* seo_score and get_optimization_suggestions emits the High-priority
\* Keyword Optimization suggestion; for every keyword the density lies in
\* [0, 100].
IsPhrase(keyword) ==
    Truthy(keyword) /\ \E i \in 1..Len(keyword) : keyword[i] \notin WordChars

C20_PhraseKeywordNeverMatches ==
    cls = "ContentAnalyzer"
        => /\ Returned(density)
                 => /\ density.ret \in 0..10000
                    /\ IsPhrase(target_keyword) => density.ret = 0
           /\ Analyzed
                 => /\ analysis.keyword_density \in 0..10000
                    /\ IsPhrase(target_keyword)
                          => /\ analysis.keyword_density = 0
                             /\ analysis.seo_score
                                   = ExpectedSeoScore(analysis, content, None) - 15
                             /\ (suggest # NotCalled /\ suggest.arg = analysis)
                                   => \E i \in 1..Len(suggest.outcome.ret) :
                                         /\ suggest.outcome.ret[i].type
                                               = "Keyword Optimization"
                                         /\ suggest.outcome.ret[i].priority = "High"

\* The phrase occurs in the analysed text, fifty-one words long.
C20_Witness ==
    /\ cls = "ContentAnalyzer"
    /\ Analyzed
    /\ IsPhrase(target_keyword)
    /\ count_substring(lower(content), lower(target_keyword)) > 0
    /\ analysis.word_count = 51
    /\ analysis.keyword_density = 0
    /\ Returned(density)
    /\ density.ret = 0
    /\ suggest # NotCalled
    /\ suggest.arg = analysis
    /\ HasType(suggest.outcome.ret, "Keyword Optimization")

====
